---- MODULE Spec2Model ----
(***************************************************************************)
(* Background job orchestration of Jobly: the job store, the job queue     *)
(* service (apps/api/app/services/job_service.py) and the worker loop      *)
(* (apps/worker/worker.py) with its handlers, and the event bus            *)
(* (apps/api/app/services/sse_service.py).                                 *)
(*                                                                         *)
(* Time is a single clock `now` shared by every process.  It advances in   *)
(* jumps of LOCK_DURATION or LOCK_DURATION + 1 seconds, so that a lock is  *)
(* observed both exactly at its expiry instant (not yet reclaimable, the   *)
(* filter is a strict $lt) and one second after it (reclaimable).          *)
(*                                                                         *)
(* Every await of emit is a point where other coroutines of the event loop *)
(* run: the callers of emit, the streams and their cancellation interleave *)
(* there.  A queue of QueueMaxsize items stands for one of 100 items.      *)
(***************************************************************************)
EXTENDS Integers, Sequences, FiniteSets, TLC

\* ------------------------------------------------------------------ bounds
MaxJobs == 2          \* jobs submitted to the worker loops
MaxDirectJobs == 1    \* jobs created when any caller may call any operation
MaxTime == 301
MaxSubs == 2          \* subscriptions ever made
MaxEmits == 2         \* calls of emit by the first publisher; the second calls once
QueueMaxsize == 2     \* stands for asyncio.Queue(maxsize=100)
LogLimit == 2         \* stands for the 1000 stored events kept per user_id
MaxStreamedJobs == 1  \* jobs requested while client streams are followed
MaxSlowEmits == 3     \* calls of emit by the first publisher when one recipient
                      \* is followed past an eviction; the second calls once

\* --------------------------------------------------------------- constants
LOCK_DURATION == 300

None == "None"
NoTime == -1

Workers == {"w1", "w2"}

JobTypes == {"job_ingestion", "match_recompute", "packet_generation", "interview_generation"}

QUEUED == "queued"
RUNNING == "running"
SUCCEEDED == "succeeded"
FAILED == "failed"

JobStatus == {QUEUED, RUNNING, SUCCEEDED, FAILED}

JOB_PROGRESS == "job.progress"
JOB_COMPLETED == "job.completed"
JOB_FAILED == "job.failed"

\* payloads a caller or a handler can supply
Results == {"res"}
Refs == {"refs"}
Errors == {"err"}
EmptyRefs == "{}"
ProgressInputs == {0, 50, 100}
\* the types of the jobs that get created: a handler that returns no
\* resource_refs and one that does
CreateTypes == {"match_recompute", "packet_generation"}
TickSteps == {LOCK_DURATION, LOCK_DURATION + 1}

Publishers == {"p1", "p2"}
GLOBAL == "global"
\* user_id of a stream: the query parameter of GET /events/stream, any string
UserIds == {None, GLOBAL, "u1"}
\* user_id of an event: job.user_id
EventUserIds == {None, "u1"}
Falsy == {None, ""}

VARIABLES
    jobs,      \* the background_jobs collection: sequence of documents, _id = index
    now,       \* datetime.utcnow()
    returned,  \* the last direct service call: who called what, for which job, and
               \* whether a document came back (the stored document after the
               \* update: return_document=True) or None
    claims,    \* which caller was handed which job, with the lock expiry it was told
    pc,        \* position of each worker in poll_and_execute
    cur,       \* Worker.current_job (0 when None)
    hstep,     \* number of progress milestones the running handler has reported
    emitted,   \* events the worker loop has published: <<event_type, job_id>>
    subs,      \* SSEService._subscribers: key -> list of queues (<<>> = no such key)
    queues,    \* the items of each asyncio.Queue, oldest first
    streams,   \* each stream_events generator: its state, the user_id it was
               \* called with and the latest event of each publisher it has yielded
    pub,       \* each caller of emit: its position in emit, the event, the list
               \* iterator, dead_queues, and what the call has observed so far
    log        \* the events collection, in insertion order

vars == <<jobs, now, returned, claims, pc, cur, hstep, emitted,
          subs, queues, streams, pub, log>>
sseVars == <<subs, queues, streams, pub, log>>
jobVars == <<jobs, now, returned, claims, pc, cur, hstep, emitted>>
workerVars == <<pc, cur, hstep, emitted>>

JobIds == 1..MaxJobs
Known(j) == j \in 1..Len(jobs)

\* ------------------------------------------------------------- documents
BackgroundJob(t, type) ==
    [type |-> type, status |-> QUEUED, progress |-> 0, error |-> None,
     resource_refs |-> EmptyRefs, created_at |-> t, started_at |-> NoTime,
     finished_at |-> NoTime, worker_id |-> None, lock_expires_at |-> NoTime,
     result |-> None]

\* store_error: the document store raised during the call; raised: the call
\* ended with that exception instead of a return value
Return(op, c, j, found) ==
    [op |-> op, caller |-> c, job |-> j, found |-> found,
     store_error |-> FALSE, raised |-> FALSE]

StoreError(op, c, j, raised) ==
    [op |-> op, caller |-> c, job |-> j, found |-> FALSE,
     store_error |-> TRUE, raised |-> raised]

\* --------------------------------------------------- job_service.py filters
\* the filter without the lock test: every running job can be claimed
EligibleAnyRunning(job, t) == job.status \in {QUEUED, RUNNING}

\* the filter without its second branch: an expired running job is never reclaimed
EligibleOnlyQueued(job, t) == job.status = QUEUED

\* the filter without its first branch: a queued job is never claimed
EligibleOnlyExpired(job, t) ==
    /\ job.status = RUNNING
    /\ job.lock_expires_at # NoTime
    /\ job.lock_expires_at < t

\* acquire_job's $or filter: queued, or running with lock_expires_at < now
\* a filter that also retries failed jobs
EligibleRetryFailed(job, t) ==
    \/ job.status \in {QUEUED, FAILED}
    \/ job.status = RUNNING /\ job.lock_expires_at # NoTime /\ job.lock_expires_at < t

Eligible(job, t) ==
    \/ job.status = QUEUED
    \/ /\ job.status = RUNNING
       /\ job.lock_expires_at # NoTime
       /\ job.lock_expires_at < t

EligibleIds(js, t) == {j \in 1..Len(js) : Eligible(js[j], t)}

\* the query without its sort: any matching document
AnyEligible(js, t) == EligibleIds(js, t)

\* sort=[("created_at", 1)]: the documents with the smallest created_at;
\* the store does not order documents with equal created_at
OldestEligible(js, t) ==
    {j \in EligibleIds(js, t) :
        \A k \in EligibleIds(js, t) : js[j].created_at <= js[k].created_at}

\* acquire_job whose $set leaves status as it was
AcquireUpdateKeepStatus(job, w, t) ==
    [job EXCEPT !.worker_id = w, !.lock_expires_at = t + LOCK_DURATION, !.started_at = t]

AcquireUpdate(job, w, t) ==
    [job EXCEPT !.status = RUNNING, !.worker_id = w,
                !.lock_expires_at = t + LOCK_DURATION, !.started_at = t]

ProgressUpdate(job, p) == [job EXCEPT !.progress = p]

\* complete_job that leaves lock_expires_at in place
CompleteUpdateKeepLock(job, result, refs, t) ==
    LET base == [job EXCEPT !.status = SUCCEEDED, !.progress = 100,
                            !.finished_at = t, !.worker_id = None]
        withResult == IF result # None THEN [base EXCEPT !.result = result] ELSE base
    IN IF refs # None THEN [withResult EXCEPT !.resource_refs = refs] ELSE withResult

CompleteUpdate(job, result, refs, t) ==
    LET base == [job EXCEPT !.status = SUCCEEDED, !.progress = 100,
                            !.finished_at = t, !.worker_id = None,
                            !.lock_expires_at = NoTime]
        withResult == IF result # None THEN [base EXCEPT !.result = result] ELSE base
    IN IF refs # None THEN [withResult EXCEPT !.resource_refs = refs] ELSE withResult

\* fail_job that leaves worker_id in place
FailUpdateKeepOwner(job, error, t) ==
    [job EXCEPT !.status = FAILED, !.error = error, !.finished_at = t,
                !.lock_expires_at = NoTime]

\* fail_job that also resets progress
FailUpdateResetProgress(job, error, t) ==
    [job EXCEPT !.status = FAILED, !.error = error, !.finished_at = t,
                !.worker_id = None, !.lock_expires_at = NoTime, !.progress = 0]

FailUpdate(job, error, t) ==
    [job EXCEPT !.status = FAILED, !.error = error, !.finished_at = t,
                !.worker_id = None, !.lock_expires_at = NoTime]

\* renew_lock's filter without the worker_id test
RenewFilterAnyOwner(job, w) == job.status = RUNNING

RenewFilter(job, w) == job.worker_id = w /\ job.status = RUNNING

RenewUpdate(job, t) == [job EXCEPT !.lock_expires_at = t + LOCK_DURATION]

\* ------------------------------------------------ job_service.py operations
\* Each operation is one atomic find_one_and_update (insert_one for create)
\* on the collection.  `c` is the process that makes the call; the service
\* itself receives it only where the code has a worker_id parameter.

DropClaim(c, j) == {cl \in claims : ~(cl.owner = c /\ cl.job = j)}

create_job(type) ==
    /\ jobs' = Append(jobs, BackgroundJob(now, type))
    /\ UNCHANGED claims

\* r: the _id of the returned document, 0 when the call returns None
acquire_job(w, r) ==
    IF OldestEligible(jobs, now) = {}
    THEN /\ r = 0
         /\ UNCHANGED <<jobs, claims>>
    ELSE /\ r \in OldestEligible(jobs, now)
         /\ jobs' = [jobs EXCEPT ![r] = AcquireUpdate(jobs[r], w, now)]
         /\ claims' = DropClaim(w, r) \cup
                        {[owner |-> w, job |-> r, expires |-> jobs'[r].lock_expires_at]}

\* found: whether the call returns a document (FALSE: it returns None)
update_progress(j, p, found) ==
    /\ found = Known(j)
    /\ IF found
       THEN jobs' = [jobs EXCEPT ![j] = ProgressUpdate(jobs[j], p)]
       ELSE UNCHANGED jobs
    /\ UNCHANGED claims

complete_job(c, j, result, refs, found) ==
    /\ found = Known(j)
    /\ IF found
       THEN /\ jobs' = [jobs EXCEPT ![j] = CompleteUpdate(jobs[j], result, refs, now)]
            /\ claims' = DropClaim(c, j)
       ELSE UNCHANGED <<jobs, claims>>

fail_job(c, j, error, found) ==
    /\ found = Known(j)
    /\ IF found
       THEN /\ jobs' = [jobs EXCEPT ![j] = FailUpdate(jobs[j], error, now)]
            /\ claims' = DropClaim(c, j)
       ELSE UNCHANGED <<jobs, claims>>

renew_lock(j, w, found) ==
    /\ found = (Known(j) /\ RenewFilter(jobs[j], w))
    /\ IF found
       THEN /\ jobs' = [jobs EXCEPT ![j] = RenewUpdate(jobs[j], now)]
            /\ claims' = DropClaim(w, j) \cup
                           {[owner |-> w, job |-> j, expires |-> jobs'[j].lock_expires_at]}
       ELSE UNCHANGED <<jobs, claims>>

\* ------------------------------------------------------------------- clock
Tick ==
    /\ \E d \in TickSteps : now + d <= MaxTime /\ now' = now + d
    /\ UNCHANGED <<jobs, returned, claims, workerVars, sseVars>>

\* ------------------------------------------- callers of the service (API)
\* any process may call any operation with any argument; `returned` keeps
\* what the call handed back
Create ==
    /\ Len(jobs) < MaxDirectJobs
    /\ \E type \in CreateTypes : create_job(type)
    /\ returned' = Return("create_job", None, Len(jobs'), TRUE)
    /\ UNCHANGED <<now, workerVars, sseVars>>

Acquire ==
    /\ \E w \in Workers, r \in 0..MaxJobs :
          /\ acquire_job(w, r)
          /\ returned' = Return("acquire_job", w, r, r # 0)
    /\ UNCHANGED <<now, workerVars, sseVars>>

UpdateProgress ==
    /\ \E j \in JobIds, p \in ProgressInputs, found \in BOOLEAN :
          /\ update_progress(j, p, found)
          /\ returned' = Return("update_progress", None, j, found)
    /\ UNCHANGED <<now, workerVars, sseVars>>

Complete ==
    /\ \E c \in Workers, j \in JobIds, r \in Results \cup {None}, f \in Refs \cup {None},
          found \in BOOLEAN :
          /\ complete_job(c, j, r, f, found)
          /\ returned' = Return("complete_job", c, j, found)
    /\ UNCHANGED <<now, workerVars, sseVars>>

Fail ==
    /\ \E c \in Workers, j \in JobIds, e \in Errors, found \in BOOLEAN :
          /\ fail_job(c, j, e, found)
          /\ returned' = Return("fail_job", c, j, found)
    /\ UNCHANGED <<now, workerVars, sseVars>>

RenewLock ==
    /\ \E j \in JobIds, w \in Workers, found \in BOOLEAN :
          /\ renew_lock(j, w, found)
          /\ returned' = Return("renew_lock", w, j, found)
    /\ UNCHANGED <<now, workerVars, sseVars>>

\* find_one_and_update raises inside acquire_job, which has no try: the
\* exception reaches the caller
AcquireStoreError ==
    /\ \E w \in Workers : returned' = StoreError("acquire_job", w, 0, TRUE)
    /\ UNCHANGED <<jobs, claims, now, workerVars, sseVars>>

\* find_one_and_update raises inside complete_job: except Exception: return None
CompleteStoreError ==
    /\ \E c \in Workers, j \in JobIds : returned' = StoreError("complete_job", c, j, FALSE)
    /\ UNCHANGED <<jobs, claims, now, workerVars, sseVars>>

\* find_one_and_update raises inside fail_job: except Exception: return None
FailStoreError ==
    /\ \E c \in Workers, j \in JobIds : returned' = StoreError("fail_job", c, j, FALSE)
    /\ UNCHANGED <<jobs, claims, now, workerVars, sseVars>>

\* ---------------------------------------------------------------- SSEService
QueueIds == 1..MaxSubs

\* key = user_id or "global"
Key(user_id) == IF user_id \in Falsy THEN GLOBAL ELSE user_id

Keys == {Key(u) : u \in UserIds}

Range(s) == {s[i] : i \in 1..Len(s)}

\* timestamp: default_factory=datetime.utcnow, the instant the event is built
SSEEvent(p, n, user_id, timestamp) ==
    [src |-> p, n |-> n, user_id |-> user_id, timestamp |-> timestamp]

NoEvent == [src |-> None, n |-> 0, user_id |-> None, timestamp |-> 0]

EmitBudget(p) == IF p = "p1" THEN MaxEmits ELSE 1

SlowBudget(p) == IF p = "p1" THEN MaxSlowEmits ELSE 1

\* a caller that is not inside emit; n counts the calls it has made
Idle(n) ==
    [pc |-> "idle", event |-> NoEvent, n |-> n, idx |-> 0, queue |-> 0,
     dead |-> <<>>, detached |-> FALSE, reg |-> {}, clean |-> {}, got |-> {},
     count |-> 0, ids_to_delete |-> {}]

\* a stream_events generator; yielded[p] is the number of the latest event
\* of publisher p that it has yielded
NoStream == [state |-> "none", user_id |-> None, yielded |-> [p \in Publishers |-> 0]]

\* asyncio.Queue.full()
Full(q) == Len(queues[q]) >= QueueMaxsize

\* a queue that hands out the newest item first
PutFirst(items, event) == <<event>> \o items

\* asyncio.Queue._put: append to the right of the deque
Put(items, event) == Append(items, event)

\* list.remove: drops the first occurrence and shifts the rest left
Remove(list, q) ==
    LET i == CHOOSE i \in 1..Len(list) :
                 list[i] = q /\ \A k \in 1..(i - 1) : list[k] # q
    IN SubSeq(list, 1, i - 1) \o SubSeq(list, i + 1, Len(list))

\* the registry after subscribe(user_id) has appended queue q
Subscribed(registry, q, user_id) ==
    [registry EXCEPT ![Key(user_id)] = Append(@, q)]

\* the registry after unsubscribe(q, user_id); an emptied list is deleted
Unsubscribed(registry, q, user_id) ==
    IF q \in Range(registry[Key(user_id)])
    THEN [registry EXCEPT ![Key(user_id)] = Remove(@, q)]
    ELSE registry

RECURSIVE UnsubscribedAll(_, _, _)
UnsubscribedAll(registry, dead, user_id) ==
    IF dead = <<>>
    THEN registry
    ELSE UnsubscribedAll(Unsubscribed(registry, Head(dead), user_id), Tail(dead), user_id)

\* what a change of the registry means to the emit calls in progress: a call
\* iterating a list that has been deleted keeps the deleted, empty list; and
\* a queue that has left the registry was not registered for the whole call
Observe(callers, old, new) ==
    [p \in Publishers |->
        LET c == callers[p]
            key == Key(c.event.user_id)
        IN IF c.pc = "idle"
           THEN c
           ELSE [c EXCEPT
                   !.detached = @ \/ (c.pc \in {"offer", "resume"}
                                        /\ old[key] # <<>> /\ new[key] = <<>>),
                   !.reg = @ \cap Range(new[key]),
                   !.clean = @ \cap Range(new[key])]]

\* _store_event: insert_one, count_documents, find the oldest, delete_many;
\* each is a request to the document store and a suspension of the caller
Matching(events, user_id) == {events[i] : i \in {k \in 1..Len(events) : events[k].user_id = user_id}}

\* count_documents({"user_id": user_id})
Count(events, user_id) == Cardinality(Matching(events, user_id))

\* find({"user_id": user_id}).sort("timestamp", 1).limit(limit)
Oldest(events, user_id, limit) ==
    {e \in Matching(events, user_id) :
        Cardinality({o \in Matching(events, user_id) : o.timestamp < e.timestamp}) < limit}

\* delete_many({"_id": {"$in": ids}})
DeleteMany(events, ids) == SelectSeq(events, LAMBDA e : e \notin ids)

\* the number of events built so far
RECURSIVE Built(_, _)
Built(callers, ps) ==
    IF ps = {}
    THEN 0
    ELSE LET p == CHOOSE x \in ps : TRUE
         IN callers[p].n + Built(callers, ps \ {p})

\* the for loop of emit asks its list iterator for the next queue: the
\* iterator holds a position in the live list
Exhausted(c, registry) ==
    c.detached \/ c.idx >= Len(registry[Key(c.event.user_id)])

\* the end of emit: every dead queue is unsubscribed, the call returns
FinishEmit(p, c) ==
    LET new == UnsubscribedAll(subs, c.dead, c.event.user_id)
    IN /\ subs' = new
       /\ pub' = Observe([pub EXCEPT ![p] = Idle(c.n)], subs, new)

\* the next iteration of the for loop, or its end
NextQueue(p, c) ==
    IF Exhausted(c, subs)
    THEN FinishEmit(p, c)
    ELSE /\ pub' = [pub EXCEPT ![p] =
                       [c EXCEPT !.pc = "offer",
                                 !.idx = c.idx + 1,
                                 !.queue = subs[Key(c.event.user_id)][c.idx + 1]]]
         /\ UNCHANGED subs

\* a subscribe that may hand out again the queue of a stream that is still
\* running but no longer registered
StreamOpenReuse(user_id) ==
    \/ /\ \E q \in QueueIds :
             /\ streams[q].state = "none"
             /\ \A k \in 1..(q - 1) : streams[k].state # "none"
             /\ streams' = [streams EXCEPT ![q] = [NoStream EXCEPT !.state = "open",
                                                                     !.user_id = user_id]]
             /\ subs' = Subscribed(subs, q, user_id)
       /\ UNCHANGED <<queues, pub, log, jobVars>>
    \/ /\ \E q \in QueueIds :
             /\ streams[q].state = "open"
             /\ streams[q].user_id = user_id
             /\ q \notin Range(subs[Key(user_id)])
             /\ subs' = Subscribed(subs, q, user_id)
       /\ UNCHANGED <<queues, streams, pub, log, jobVars>>

\* stream_events up to its first yield: subscribe(user_id) makes a new queue
StreamOpen(user_id) ==
    /\ \E q \in QueueIds :
          /\ streams[q].state = "none"
          /\ \A k \in 1..(q - 1) : streams[k].state # "none"
          /\ streams' = [streams EXCEPT ![q] = [NoStream EXCEPT !.state = "open",
                                                                  !.user_id = user_id]]
          /\ subs' = Subscribed(subs, q, user_id)
    /\ UNCHANGED <<queues, pub, log, jobVars>>

\* stream_events: queue.get() returns the oldest item, which is yielded
StreamYield(q) ==
    /\ streams[q].state = "open"
    /\ queues[q] # <<>>
    /\ streams' = [streams EXCEPT ![q].yielded[Head(queues[q]).src] = Head(queues[q]).n]
    /\ queues' = [queues EXCEPT ![q] = Tail(@)]
    /\ UNCHANGED <<subs, pub, log, jobVars>>

\* stream_events without its finally clause: the stream ends, the queue
\* stays in the registry
StreamCloseLeak(q) ==
    /\ streams[q].state = "open"
    /\ streams' = [streams EXCEPT ![q].state = "closed"]
    /\ UNCHANGED <<subs, pub, queues, log, jobVars>>

\* stream_events is cancelled or closed: finally unsubscribe(queue, user_id)
StreamClose(q) ==
    /\ streams[q].state = "open"
    /\ streams' = [streams EXCEPT ![q].state = "closed"]
    /\ LET new == Unsubscribed(subs, q, streams[q].user_id)
       IN /\ subs' = new
          /\ pub' = Observe(pub, subs, new)
    /\ UNCHANGED <<queues, log, jobVars>>

\* emit(event) is called and suspends in _store_event
EmitCall(p, user_id) ==
    /\ pub[p].pc = "idle"
    /\ LET registered == Range(subs[Key(user_id)])
       IN pub' = [pub EXCEPT ![p] =
                     [Idle(pub[p].n + 1) EXCEPT
                         !.pc = "store",
                         !.event = SSEEvent(p, pub[p].n + 1, user_id,
                                            Built(pub, Publishers) + 1),
                         !.reg = registered,
                         !.clean = {q \in registered : ~Full(q)}]]
    /\ UNCHANGED <<subs, queues, streams, log, jobVars>>

\* _store_event returns; "if key in self._subscribers" and the first
\* iteration of the loop follow without a suspension
StoreReturns(p) ==
    LET c == [pub[p] EXCEPT !.count = 0, !.ids_to_delete = {}]
    IN IF subs[Key(c.event.user_id)] = <<>>
       THEN pub' = [pub EXCEPT ![p] = Idle(c.n)] /\ UNCHANGED subs
       ELSE NextQueue(p, c)

\* _store_event: insert_one has stored the event
EmitInsert(p) ==
    /\ pub[p].pc = "store"
    /\ log' = Append(log, pub[p].event)
    /\ pub' = [pub EXCEPT ![p].pc = "count"]
    /\ UNCHANGED <<subs, queues, streams, jobVars>>

\* _store_event: count_documents answers; nothing is deleted unless the count
\* exceeds the limit
EmitCount(p) ==
    /\ pub[p].pc = "count"
    /\ LET count == Count(log, pub[p].event.user_id)
       IN IF count > LogLimit
          THEN pub' = [pub EXCEPT ![p].pc = "find", ![p].count = count] /\ UNCHANGED subs
          ELSE StoreReturns(p)
    /\ UNCHANGED <<queues, streams, log, jobVars>>

\* _store_event: the cursor has returned the count - limit oldest documents
EmitFind(p) ==
    /\ pub[p].pc = "find"
    /\ LET ids == Oldest(log, pub[p].event.user_id, pub[p].count - LogLimit)
       IN IF ids # {}
          THEN pub' = [pub EXCEPT ![p].pc = "delete", ![p].ids_to_delete = ids]
               /\ UNCHANGED subs
          ELSE StoreReturns(p)
    /\ UNCHANGED <<queues, streams, log, jobVars>>

\* _store_event: delete_many has removed the documents that are still stored
EmitDelete(p) ==
    /\ pub[p].pc = "delete"
    /\ log' = DeleteMany(log, pub[p].ids_to_delete)
    /\ StoreReturns(p)
    /\ UNCHANGED <<queues, streams, jobVars>>

\* queue.put(event) finds room: the event is in the queue; every other emit
\* in progress sees whether the queue has become full
EmitPut(p) ==
    /\ pub[p].pc = "offer"
    /\ ~Full(pub[p].queue)
    /\ LET q == pub[p].queue
           items == Put(queues[q], pub[p].event)
       IN /\ queues' = [queues EXCEPT ![q] = items]
          /\ pub' = [o \in Publishers |->
                        IF o = p
                        THEN [pub[p] EXCEPT !.pc = "resume", !.got = @ \cup {q}]
                        ELSE IF Len(items) >= QueueMaxsize
                             THEN [pub[o] EXCEPT !.clean = @ \ {q}]
                             ELSE pub[o]]
    /\ UNCHANGED <<subs, streams, log, jobVars>>

\* the queue stays full for the whole timeout of wait_for: TimeoutError,
\* the event is dropped for this queue and the queue is listed as dead
EmitTimeout(p) ==
    /\ pub[p].pc = "offer"
    /\ Full(pub[p].queue)
    /\ pub' = [pub EXCEPT ![p].pc = "resume", ![p].dead = Append(@, pub[p].queue)]
    /\ UNCHANGED <<subs, queues, streams, log, jobVars>>

\* emit resumes after the await and goes on with the loop
EmitResume(p) ==
    /\ pub[p].pc = "resume"
    /\ NextQueue(p, pub[p])
    /\ UNCHANGED <<queues, streams, log, jobVars>>

\* ------------------------------------------------------ worker/handlers/*.py
\* the progress values a handler reports, in order, each followed by the
\* matching job.progress event
Milestones(type) ==
    CASE type = "job_ingestion" -> <<10, 30, 90>>
      [] type = "match_recompute" -> <<10, 30, 90>>
      [] type = "packet_generation" -> <<10, 30, 50, 70, 85>>
      [] type = "interview_generation" -> <<10, 30, 60, 85>>

\* the handler's return value: result.get("result"), result.get("resource_refs")
HandlerResult(type) == "res"
HandlerRefs(type) ==
    IF type \in {"packet_generation", "interview_generation"} THEN "refs" ELSE None

\* Worker.handlers: the job types with a registered handler
Handlers == {"job_ingestion", "match_recompute", "packet_generation", "interview_generation"}

\* where the dispatch can raise, counted in milestones already reported: a
\* missing handler raises ValueError before anything runs;
\* handle_job_ingestion has no statement that raises before its first report
CanRaise(type, k) ==
    \/ type \notin Handlers /\ k = 0
    \/ type \in Handlers /\ ~(type = "job_ingestion" /\ k = 0)

\* ------------------------------------------- routers/background_jobs.py
\* POST /background-jobs
Submit ==
    /\ Len(jobs) < MaxJobs
    /\ \E type \in CreateTypes : create_job(type)
    /\ UNCHANGED <<now, returned, workerVars, sseVars>>

\* ---------------------------------------------------------- worker/worker.py
\* poll_and_execute, one action per await
\* job.user_id, the requester given to POST /background-jobs: absent in the
\* requests made here
JobUserId == None

\* the event a worker builds for a job
WorkerEvent(type, j) == [src |-> type, n |-> j, user_id |-> JobUserId]

\* _subscribers of the sse_service instance of the worker process: empty
\* after __init__, and nothing in the worker process calls subscribe
WorkerSubscribers == [k \in Keys |-> <<>>]

\* sse_service.emit called in the worker process: the event is stored and
\* put into the queues registered in that process
WorkerEmit(type, j) ==
    /\ emitted' = emitted \cup {<<type, j>>}
    /\ queues' = [q \in QueueIds |->
                     IF q \in Range(WorkerSubscribers[Key(JobUserId)])
                     THEN Put(queues[q], WorkerEvent(type, j))
                     ELSE queues[q]]
    /\ UNCHANGED <<subs, streams, pub, log>>

PollAcquire(w) ==
    /\ pc[w] = "poll"
    /\ \E r \in 0..MaxJobs :
          /\ acquire_job(w, r)
          /\ IF r # 0
             THEN /\ cur' = [cur EXCEPT ![w] = r]
                  /\ pc' = [pc EXCEPT ![w] = "emit_started"]
             ELSE UNCHANGED <<cur, pc>>
    /\ UNCHANGED <<now, returned, hstep, emitted, sseVars>>

EmitStarted(w) ==
    /\ pc[w] = "emit_started"
    /\ WorkerEmit(JOB_PROGRESS, cur[w])
    /\ pc' = [pc EXCEPT ![w] = "handler"]
    /\ hstep' = [hstep EXCEPT ![w] = 0]
    /\ UNCHANGED <<jobs, now, returned, claims, cur>>

HandlerReport(w) ==
    /\ pc[w] = "handler"
    /\ hstep[w] < Len(Milestones(jobs[cur[w]].type))
    /\ \E found \in BOOLEAN :
          update_progress(cur[w], Milestones(jobs[cur[w]].type)[hstep[w] + 1], found)
    /\ WorkerEmit(JOB_PROGRESS, cur[w])
    /\ hstep' = [hstep EXCEPT ![w] = hstep[w] + 1]
    /\ UNCHANGED <<now, returned, pc, cur>>

HandlerReturn(w) ==
    /\ pc[w] = "handler"
    /\ hstep[w] = Len(Milestones(jobs[cur[w]].type))
    /\ pc' = [pc EXCEPT ![w] = "complete"]
    /\ UNCHANGED <<jobs, now, returned, claims, cur, hstep, emitted, sseVars>>

\* an exception that skips the except clause and ends the iteration
HandlerRaisePropagates(w) ==
    /\ pc[w] = "handler"
    /\ CanRaise(jobs[cur[w]].type, hstep[w])
    /\ pc' = [pc EXCEPT ![w] = "poll"]
    /\ cur' = [cur EXCEPT ![w] = 0]
    /\ hstep' = [hstep EXCEPT ![w] = 0]
    /\ UNCHANGED <<jobs, now, returned, claims, emitted, sseVars>>

HandlerRaise(w) ==
    /\ pc[w] = "handler"
    /\ CanRaise(jobs[cur[w]].type, hstep[w])
    /\ pc' = [pc EXCEPT ![w] = "fail"]
    /\ UNCHANGED <<jobs, now, returned, claims, cur, hstep, emitted, sseVars>>

CompleteJob(w) ==
    /\ pc[w] = "complete"
    /\ \E found \in BOOLEAN :
          complete_job(w, cur[w], HandlerResult(jobs[cur[w]].type),
                       HandlerRefs(jobs[cur[w]].type), found)
    /\ pc' = [pc EXCEPT ![w] = "emit_completed"]
    /\ UNCHANGED <<now, returned, cur, hstep, emitted, sseVars>>

\* a completion that returns to the poll without publishing
EmitCompletedSilent(w) ==
    /\ pc[w] = "emit_completed"
    /\ pc' = [pc EXCEPT ![w] = "poll"]
    /\ cur' = [cur EXCEPT ![w] = 0]
    /\ hstep' = [hstep EXCEPT ![w] = 0]
    /\ UNCHANGED <<jobs, now, returned, claims, emitted, sseVars>>

EmitCompleted(w) ==
    /\ pc[w] = "emit_completed"
    /\ WorkerEmit(JOB_COMPLETED, cur[w])
    /\ pc' = [pc EXCEPT ![w] = "poll"]
    /\ cur' = [cur EXCEPT ![w] = 0]
    /\ hstep' = [hstep EXCEPT ![w] = 0]
    /\ UNCHANGED <<jobs, now, returned, claims>>

FailJob(w) ==
    /\ pc[w] = "fail"
    /\ \E e \in Errors, found \in BOOLEAN : fail_job(w, cur[w], e, found)
    /\ pc' = [pc EXCEPT ![w] = "emit_failed"]
    /\ UNCHANGED <<now, returned, cur, hstep, emitted, sseVars>>

\* a failure after which the loop stops polling
EmitFailedCrash(w) ==
    /\ pc[w] = "emit_failed"
    /\ WorkerEmit(JOB_FAILED, cur[w])
    /\ pc' = [pc EXCEPT ![w] = "crashed"]
    /\ UNCHANGED <<jobs, now, returned, claims, cur, hstep>>

EmitFailed(w) ==
    /\ pc[w] = "emit_failed"
    /\ WorkerEmit(JOB_FAILED, cur[w])
    /\ pc' = [pc EXCEPT ![w] = "poll"]
    /\ cur' = [cur EXCEPT ![w] = 0]
    /\ hstep' = [hstep EXCEPT ![w] = 0]
    /\ UNCHANGED <<jobs, now, returned, claims>>

WorkerStep(w) ==
    \/ PollAcquire(w)
    \/ EmitStarted(w)
    \/ HandlerReport(w)
    \/ HandlerReturn(w)
    \/ HandlerRaise(w)
    \/ CompleteJob(w)
    \/ EmitCompleted(w)
    \/ FailJob(w)
    \/ EmitFailed(w)

Init ==
    /\ jobs = <<>>
    /\ now = 0
    /\ returned = Return(None, None, 0, FALSE)
    /\ claims = {}
    /\ pc = [w \in Workers |-> "poll"]
    /\ cur = [w \in Workers |-> 0]
    /\ hstep = [w \in Workers |-> 0]
    /\ emitted = {}
    /\ subs = [k \in Keys |-> <<>>]
    /\ queues = [q \in QueueIds |-> <<>>]
    /\ streams = [q \in QueueIds |-> NoStream]
    /\ pub = [p \in Publishers |-> Idle(0)]
    /\ log = <<>>

Next ==
    \/ Create
    \/ Acquire
    \/ UpdateProgress
    \/ Complete
    \/ Fail
    \/ RenewLock
    \/ Tick

Spec == Init /\ [][Next]_vars

\* the same callers over a document store whose calls can raise
NextFault ==
    \/ Create
    \/ Acquire
    \/ UpdateProgress
    \/ Complete
    \/ Fail
    \/ RenewLock
    \/ Tick
    \/ AcquireStoreError
    \/ CompleteStoreError
    \/ FailStoreError

FaultSpec == Init /\ [][NextFault]_vars

\* the deployed system: API callers create jobs, worker loops do the rest
Poll == \E w \in Workers : PollAcquire(w)
Started == \E w \in Workers : EmitStarted(w)
Report == \E w \in Workers : HandlerReport(w)
HReturn == \E w \in Workers : HandlerReturn(w)
HRaise == \E w \in Workers : HandlerRaise(w)
WComplete == \E w \in Workers : CompleteJob(w)
Completed == \E w \in Workers : EmitCompleted(w)
WFail == \E w \in Workers : FailJob(w)
Failed == \E w \in Workers : EmitFailed(w)

NextWorkers ==
    \/ Submit
    \/ Poll
    \/ Started
    \/ Report
    \/ HReturn
    \/ HRaise
    \/ WComplete
    \/ Completed
    \/ WFail
    \/ Failed
    \/ Tick

WorkerSpec == Init /\ [][NextWorkers]_vars

LiveSpec == WorkerSpec /\ \A w \in Workers : WF_vars(WorkerStep(w))

Open == \E u \in UserIds : StreamOpen(u)
Yield == \E q \in QueueIds : StreamYield(q)
Close == \E q \in QueueIds : StreamClose(q)
Call ==
    \E p \in Publishers, u \in EventUserIds :
        pub[p].n < EmitBudget(p) /\ EmitCall(p, u)
Inserted == \E p \in Publishers : EmitInsert(p)
Counted == \E p \in Publishers : EmitCount(p)
Found == \E p \in Publishers : EmitFind(p)
Deleted == \E p \in Publishers : EmitDelete(p)
Offered == \E p \in Publishers : EmitPut(p)
TimedOut == \E p \in Publishers : EmitTimeout(p)
Resumed == \E p \in Publishers : EmitResume(p)

NextSse ==
    \/ Open
    \/ Yield
    \/ Close
    \/ Call
    \/ Inserted
    \/ Counted
    \/ Found
    \/ Deleted
    \/ Offered
    \/ TimedOut
    \/ Resumed

SseSpec == Init /\ [][NextSse]_vars

\* the event bus with one recipient, the absent user_id, and enough calls of
\* emit to fill a queue, evict its subscriber and publish again
OpenAbsent == StreamOpen(None)
CallAbsent == \E p \in Publishers : pub[p].n < SlowBudget(p) /\ EmitCall(p, None)

NextSlow ==
    \/ OpenAbsent
    \/ Yield
    \/ Close
    \/ CallAbsent
    \/ Inserted
    \/ Counted
    \/ Found
    \/ Deleted
    \/ Offered
    \/ TimedOut
    \/ Resumed

SlowSpec == Init /\ [][NextSlow]_vars

\* the two processes of a deployment: the API process, where clients request
\* jobs and open or close streams, and the worker process, whose emit calls
\* reach the subscribers registered in the worker process
Request ==
    /\ Len(jobs) < MaxStreamedJobs
    /\ \E type \in CreateTypes : create_job(type)
    /\ UNCHANGED <<now, returned, workerVars, sseVars>>

\* a client subscribes while no job has been claimed yet
Subscribe ==
    /\ \A j \in 1..Len(jobs) : jobs[j].status = QUEUED
    /\ Open

NextDeploy ==
    \/ Request
    \/ Subscribe
    \/ Close
    \/ Poll
    \/ Started
    \/ Report
    \/ HReturn
    \/ HRaise
    \/ WComplete
    \/ Completed
    \/ WFail
    \/ Failed
    \/ Tick

DeploySpec == Init /\ [][NextDeploy]_vars

\* ------------------------------------------------------------------ claims
Terminal(j) == Known(j) /\ jobs[j].status \in {SUCCEEDED, FAILED}

ExpiredRunning(j) ==
    /\ Known(j)
    /\ jobs[j].status = RUNNING
    /\ jobs[j].lock_expires_at # NoTime
    /\ jobs[j].lock_expires_at < now

\* a claim is unexpired until the clock has passed the lock expiry it carries
Unexpired(cl) == cl.expires >= now

\* a step of the direct callers that is a call of `op`
CallOf(op) == returned'.op = op /\ now' = now

\* a step taken by worker w
StepOf(w) == pc'[w] # pc[w] \/ hstep'[w] # hstep[w]

\* w's claim was lost: the job it is executing is running under another owner
LostClaim(w) ==
    /\ cur[w] # 0
    /\ pc[w] \in {"handler", "complete", "fail"}
    /\ jobs[cur[w]].status = RUNNING
    /\ jobs[cur[w]].worker_id # w

\* C1: no two callers hold an unexpired claim on the same job at the same
\* time: a job handed to one caller is handed to a second one only after the
\* first one's complete/fail or after its lock has expired
C1_NoDoubleClaim ==
    \A a \in claims, b \in claims :
        (a.job = b.job /\ a.owner # b.owner) => ~(Unexpired(a) /\ Unexpired(b))

\* a job was handed to a second caller after the first caller's lock expired
C1_Witness ==
    \E a \in claims, b \in claims :
        /\ a.job = b.job
        /\ a.owner # b.owner
        /\ ~Unexpired(a)
        /\ Unexpired(b)

\* C2: the stored status changes only along queued -> running,
\* running -> succeeded, running -> failed; a terminal status never changes
C2_StatusTransitions ==
    [][\A j \in 1..Len(jobs) :
          jobs'[j].status # jobs[j].status =>
              <<jobs[j].status, jobs'[j].status>> \in
                  {<<QUEUED, RUNNING>>, <<RUNNING, SUCCEEDED>>, <<RUNNING, FAILED>>}]_vars

\* C3: update_progress, complete and fail by a worker whose claim was lost
\* leave status, owner, lock, progress, result and error of the job as the
\* current owner left them
C3_StaleWriteIsNoOp ==
    [][\A w \in Workers :
          (LostClaim(w) /\ StepOf(w)) =>
              /\ jobs'[cur[w]].status = jobs[cur[w]].status
              /\ jobs'[cur[w]].worker_id = jobs[cur[w]].worker_id
              /\ jobs'[cur[w]].lock_expires_at = jobs[cur[w]].lock_expires_at
              /\ jobs'[cur[w]].progress = jobs[cur[w]].progress
              /\ jobs'[cur[w]].result = jobs[cur[w]].result
              /\ jobs'[cur[w]].error = jobs[cur[w]].error]_vars

\* C4: with worker loops polling, none crashing and every handler returning
\* or raising, every created job eventually has status succeeded or failed
C4_AllJobsTerminate == \A j \in JobIds : Known(j) ~> Terminal(j)

\* every job that can be submitted was claimed and reached a terminal status
C4_Witness ==
    \A j \in JobIds : Terminal(j) /\ jobs[j].started_at # NoTime

\* C5: a running job whose lock expired before now is eligible: a claim by
\* another owner returns it (it is the oldest eligible job) with the caller
\* as owner, status running and a lock expiry in the future
C5_ExpiredRunningReclaim ==
    [][CallOf("acquire_job") =>
          \A j \in 1..Len(jobs) :
              ( /\ ExpiredRunning(j)
                /\ jobs[j].worker_id # returned'.caller
                /\ \A k \in EligibleIds(jobs, now) \ {j} :
                       jobs[j].created_at < jobs[k].created_at )
              => /\ returned'.found
                 /\ returned'.job = j
                 /\ jobs'[j].worker_id = returned'.caller
                 /\ jobs'[j].status = RUNNING
                 /\ jobs'[j].lock_expires_at = now + LOCK_DURATION
                 /\ jobs'[j].lock_expires_at > now]_vars

\* a claim has just returned a job that another caller had been handed before
C5_Witness ==
    /\ returned.op = "acquire_job"
    /\ returned.found
    /\ jobs[returned.job].status = RUNNING
    /\ jobs[returned.job].worker_id = returned.caller
    /\ jobs[returned.job].lock_expires_at > now
    /\ \E cl \in claims :
          cl.job = returned.job /\ cl.owner # returned.caller /\ ~Unexpired(cl)

\* C6: renew_lock returns the job, with lock_expires_at = now + LOCK_DURATION,
\* exactly when the job is running and owned by the caller; otherwise it
\* returns None and changes nothing
C6_RenewOnlyByOwner ==
    [][CallOf("renew_lock") =>
          LET j == returned'.job
              w == returned'.caller
          IN /\ returned'.found <=>
                   (Known(j) /\ jobs[j].status = RUNNING /\ jobs[j].worker_id = w)
             /\ returned'.found =>
                   jobs' = [jobs EXCEPT ![j].lock_expires_at = now + LOCK_DURATION]
             /\ ~returned'.found => jobs' = jobs]_vars

\* renew_lock by the first holder has just returned None for a job that
\* another owner reclaimed
C6_Witness ==
    /\ returned.op = "renew_lock"
    /\ ~returned.found
    /\ Known(returned.job)
    /\ jobs[returned.job].status = RUNNING
    /\ jobs[returned.job].worker_id # returned.caller
    /\ \E cl \in claims : cl.job = returned.job /\ cl.owner = returned.caller

\* C7: a job's worker_id is set if and only if its status is running
C7_OwnerIffRunning ==
    \A j \in 1..Len(jobs) : (jobs[j].worker_id # None) <=> (jobs[j].status = RUNNING)

\* a job that was claimed has failed and its owner is cleared
C7_Witness ==
    \E j \in 1..Len(jobs) :
        /\ jobs[j].status = FAILED
        /\ jobs[j].started_at # NoTime
        /\ jobs[j].worker_id = None

\* C8: a job's progress is 100 if and only if its status is succeeded
C8_ProgressIffSucceeded ==
    \A j \in 1..Len(jobs) : (jobs[j].progress = 100) <=> (jobs[j].status = SUCCEEDED)

\* C9: a result is stored only on a succeeded job, an error only on a failed one
C9_ResultErrorMatchStatus ==
    \A j \in 1..Len(jobs) :
        /\ jobs[j].result # None => jobs[j].status = SUCCEEDED
        /\ jobs[j].error # None => jobs[j].status = FAILED

\* C10: while a job is running no step lowers its stored progress
C10_ProgressMonotone ==
    [][\A j \in 1..Len(jobs) :
          (jobs[j].status = RUNNING /\ jobs'[j].status = RUNNING) =>
              jobs'[j].progress >= jobs[j].progress]_vars

\* C11: claim returns, among the jobs eligible at the call, one with the
\* smallest created_at: no job is claimed while an older eligible job exists
C11_ClaimIsFifo ==
    [][\A w \in Workers :
          (pc[w] = "poll" /\ pc'[w] = "emit_started") =>
              /\ cur'[w] \in EligibleIds(jobs, now)
              /\ \A k \in EligibleIds(jobs, now) :
                     jobs[cur'[w]].created_at <= jobs[k].created_at]_vars

\* a worker has just claimed the older job while a younger one is queued
C11_Witness ==
    \E w \in Workers, k \in 1..Len(jobs) :
        /\ pc[w] = "emit_started"
        /\ jobs[cur[w]].worker_id = w
        /\ jobs[k].status = QUEUED
        /\ jobs[cur[w]].created_at < jobs[k].created_at

\* C12: claim returns None exactly when no job is eligible; otherwise the
\* one selected job, and only it, gets status running, the caller as owner,
\* started_at = now and lock_expires_at = now + LOCK_DURATION in the same
\* step, so that a second caller at that time is not handed this job again
C12_ClaimAtomicUpdate ==
    [][CallOf("acquire_job") =>
          LET r == returned'.job
          IN /\ returned'.found <=> (EligibleIds(jobs, now) # {})
             /\ ~returned'.found => jobs' = jobs
             /\ returned'.found =>
                   /\ r \in EligibleIds(jobs, now)
                   /\ jobs'[r].status = RUNNING
                   /\ jobs'[r].worker_id = returned'.caller
                   /\ jobs'[r].started_at = now
                   /\ jobs'[r].lock_expires_at = now + LOCK_DURATION
                   /\ \A k \in 1..Len(jobs) : k # r => jobs'[k] = jobs[k]
                   /\ r \notin EligibleIds(jobs', now)]_vars

\* the second of two callers has just received None: the only job is
\* running under the first caller's unexpired lock
C12_Witness ==
    /\ returned.op = "acquire_job"
    /\ ~returned.found
    /\ \E j \in 1..Len(jobs) :
          /\ jobs[j].status = RUNNING
          /\ jobs[j].worker_id # returned.caller
          /\ jobs[j].lock_expires_at >= now

\* C13: after the worker's complete(id, result, resource_refs) the stored
\* job has status succeeded, progress 100, the result and the resource_refs
\* that were passed, finished_at set, owner and lock cleared
C13_CompleteStores ==
    [][\A w \in Workers :
          (pc[w] = "complete" /\ pc'[w] = "emit_completed") =>
              LET j == cur[w]
                  type == jobs[j].type
              IN /\ jobs'[j].status = SUCCEEDED
                 /\ jobs'[j].progress = 100
                 /\ jobs'[j].result = HandlerResult(type)
                 /\ HandlerRefs(type) # None => jobs'[j].resource_refs = HandlerRefs(type)
                 /\ HandlerRefs(type) = None => jobs'[j].resource_refs = jobs[j].resource_refs
                 /\ jobs'[j].finished_at = now
                 /\ jobs'[j].finished_at # NoTime
                 /\ jobs'[j].worker_id = None
                 /\ jobs'[j].lock_expires_at = NoTime]_vars

\* a worker has just completed a job with a result and resource_refs
C13_Witness ==
    \E w \in Workers :
        /\ pc[w] = "emit_completed"
        /\ jobs[cur[w]].status = SUCCEEDED
        /\ jobs[cur[w]].progress = 100
        /\ jobs[cur[w]].result \in Results
        /\ jobs[cur[w]].resource_refs \in Refs

\* C14: fail(id, error) on a running job leaves it failed with that error,
\* finished_at set, owner and lock cleared, result and progress untouched
C14_FailStores ==
    [][\A w \in Workers :
          (pc[w] = "fail" /\ pc'[w] = "emit_failed" /\ jobs[cur[w]].status = RUNNING) =>
              LET j == cur[w]
              IN /\ jobs'[j].status = FAILED
                 /\ jobs'[j].error \in Errors
                 /\ jobs'[j].finished_at = now
                 /\ jobs'[j].finished_at # NoTime
                 /\ jobs'[j].worker_id = None
                 /\ jobs'[j].lock_expires_at = NoTime
                 /\ jobs'[j].result = jobs[j].result
                 /\ jobs'[j].progress = jobs[j].progress]_vars

\* a worker has just failed a job whose handler had reported progress
C14_Witness ==
    \E w \in Workers :
        /\ pc[w] = "emit_failed"
        /\ jobs[cur[w]].status = FAILED
        /\ jobs[cur[w]].error \in Errors
        /\ jobs[cur[w]].progress > 0

\* the job has been failed by a worker: it is stored as failed, a worker is
\* about to publish its failure, or the failure has been published
FailedByWorker(j) ==
    \/ jobs[j].status = FAILED
    \/ <<JOB_FAILED, j>> \in emitted
    \/ \E v \in Workers : pc[v] = "emit_failed" /\ cur[v] = j

\* C19: when the executor of a claimed job raises (or no executor is
\* registered), the worker calls fail for that job with the error text and
\* then publishes job.failed for it; the iteration ends back at the poll, and
\* no worker claims the job again
C19_RaiseFailsAndPublishes ==
    [][\A w \in Workers :
          /\ (pc[w] = "handler" /\ pc'[w] # "handler") =>
                 /\ pc'[w] \in {"complete", "fail"}
                 /\ cur'[w] = cur[w]
                 /\ pc'[w] = "complete" =>
                       /\ jobs[cur[w]].type \in Handlers
                       /\ hstep[w] = Len(Milestones(jobs[cur[w]].type))
          /\ (pc[w] = "fail" /\ pc'[w] # "fail") =>
                 /\ pc'[w] = "emit_failed"
                 /\ cur'[w] = cur[w]
                 /\ jobs'[cur[w]].status = FAILED
                 /\ jobs'[cur[w]].error \in Errors
                 /\ \A k \in 1..Len(jobs) : k # cur[w] => jobs'[k] = jobs[k]
          /\ (pc[w] = "emit_failed" /\ pc'[w] # "emit_failed") =>
                 /\ pc'[w] = "poll"
                 /\ <<JOB_FAILED, cur[w]>> \in emitted'
          /\ (pc[w] = "poll" /\ pc'[w] = "emit_started") =>
                 ~FailedByWorker(cur'[w])]_vars

\* a job whose executor raised is failed with the error text, its job.failed
\* event is published, and the worker is polling again
C19_Witness ==
    \E j \in 1..Len(jobs) :
        /\ jobs[j].status = FAILED
        /\ jobs[j].error \in Errors
        /\ <<JOB_FAILED, j>> \in emitted
        /\ <<JOB_COMPLETED, j>> \notin emitted
        /\ \A w \in Workers : pc[w] = "poll"

\* C20: after a job fails in a worker the worker polls again, and, when no
\* other worker takes the work, every job queued before or after the failure
\* is driven to a terminal state by that worker
C20_LoopSurvivesFailure ==
    \A w \in Workers :
        /\ (pc[w] \in {"fail", "emit_failed"}) ~> (pc[w] = "poll")
        /\ [](\A v \in Workers \ {w} : pc[v] = "poll") =>
              \A j \in JobIds :
                  (/\ Known(j)
                   /\ jobs[j].status = QUEUED
                   /\ \E k \in JobIds \ {j} : <<JOB_FAILED, k>> \in emitted)
                      ~> Terminal(j)

\* the worker that failed the first job is publishing the outcome of the
\* second while the other worker has never claimed anything
C20_Witness ==
    \E w \in Workers :
        /\ pc[w] \in {"emit_completed", "emit_failed"}
        /\ cur[w] = 2
        /\ Terminal(2)
        /\ jobs[1].status = FAILED
        /\ <<JOB_FAILED, 1>> \in emitted
        /\ \A v \in Workers \ {w} : pc[v] = "poll" /\ cur[v] = 0

\* the step in which a call of emit returns
EmitReturns(p) == pub[p].pc # "idle" /\ pub'[p].pc = "idle"

\* C15: events published one after the other by one publisher are held by
\* every queue, and yielded by every stream, in the order of publication
C15_PublishOrderKept ==
    \A q \in QueueIds :
        /\ \A i, k \in 1..Len(queues[q]) :
              (i < k /\ queues[q][i].src = queues[q][k].src)
                  => queues[q][i].n < queues[q][k].n
        /\ \A i \in 1..Len(queues[q]) :
              streams[q].yielded[queues[q][i].src] < queues[q][i].n

\* a stream has yielded the first event of a publisher while the second one
\* is in its queue
C15_Witness ==
    \E q \in QueueIds : \E i \in 1..Len(queues[q]) :
        /\ streams[q].state = "open"
        /\ queues[q][i].n = 2
        /\ streams[q].yielded[queues[q][i].src] = 1

\* C16: an event published with recipient r2 is never placed in the queue
\* of a subscription made for a different recipient scope r1
C16_ScopesIsolated ==
    \A q \in QueueIds : \A i \in 1..Len(queues[q]) :
        queues[q][i].user_id = streams[q].user_id

\* C17: when emit returns, every queue that was registered for the event's
\* key during the whole call and was never full during it holds the event
C17_EveryRegisteredReceives ==
    [][\A p \in Publishers :
          EmitReturns(p) => pub[p].clean \subseteq pub[p].got]_vars

\* C18: when emit returns after a timeout on a full queue, the event was
\* dropped for that queue only: the dead queue does not hold the event and
\* has left the registry, and every other queue registered during the whole
\* call was offered the event
C18_FullQueueEvictedRestOffered ==
    [][\A p \in Publishers :
          (EmitReturns(p) /\ pub[p].dead # <<>>) =>
              /\ \A q \in Range(pub[p].dead) :
                    /\ q \notin pub[p].got
                    /\ q \notin Range(subs'[Key(pub[p].event.user_id)])
              /\ pub[p].reg \subseteq (pub[p].got \cup Range(pub[p].dead))]_vars

\* C22: a job whose status is failed or succeeded is never returned by
\* claim, whatever its lock and whoever calls; it stays terminal, and create
\* yields a job id that no existing job has
C22_TerminalNeverClaimed ==
    [][/\ CallOf("acquire_job") /\ returned'.found => ~Terminal(returned'.job)
       /\ \A j \in 1..Len(jobs) : Terminal(j) => Terminal(j)'
       /\ CallOf("create_job") =>
             /\ returned'.job \notin 1..Len(jobs)
             /\ \A j \in 1..Len(jobs) : jobs'[j] = jobs[j]
             /\ jobs'[returned'.job].status = QUEUED]_vars

\* a caller has polled and received None while the only job is failed
C22_Witness ==
    /\ returned.op = "acquire_job"
    /\ ~returned.found
    /\ \E j \in 1..Len(jobs) : jobs[j].status = FAILED
    /\ \A j \in 1..Len(jobs) : Terminal(j)

\* the worker is between its claim of the job and its complete or fail call
Executing(w) == pc[w] \in {"emit_started", "handler", "complete", "fail"}

\* C24: while a worker is executing a job it claimed, the job's lock has not
\* expired, and no two workers execute the same job at the same time
C24_LockHeldWhileExecuting ==
    /\ \A w \in Workers :
          Executing(w) =>
              jobs[cur[w]].lock_expires_at # NoTime /\ jobs[cur[w]].lock_expires_at >= now
    /\ \A v, w \in Workers :
          (v # w /\ Executing(v) /\ Executing(w)) => cur[v] # cur[w]

\* C25: for every claim the worker publishes job.progress before it
\* dispatches, and exactly one terminal event before it polls again:
\* job.completed after the handler returned, job.failed after it raised
C25_OneTerminalEventPerClaim ==
    [][\A w \in Workers :
          /\ (pc[w] = "emit_started" /\ pc'[w] # "emit_started") =>
                 pc'[w] = "handler" /\ <<JOB_PROGRESS, cur[w]>> \in emitted'
          /\ (pc'[w] = "handler" /\ pc[w] # "handler") => pc[w] = "emit_started"
          /\ (pc[w] = "complete" /\ pc'[w] # "complete") => pc'[w] = "emit_completed"
          /\ (pc[w] = "fail" /\ pc'[w] # "fail") => pc'[w] = "emit_failed"
          /\ (pc[w] = "emit_completed" /\ pc'[w] # "emit_completed") =>
                 /\ pc'[w] = "poll"
                 /\ emitted' = emitted \cup {<<JOB_COMPLETED, cur[w]>>}
          /\ (pc[w] = "emit_failed" /\ pc'[w] # "emit_failed") =>
                 /\ pc'[w] = "poll"
                 /\ emitted' = emitted \cup {<<JOB_FAILED, cur[w]>>}
          /\ (pc'[w] = "poll" /\ pc[w] # "poll") =>
                 pc[w] \in {"emit_completed", "emit_failed"}
          /\ (pc'[w] = "complete" /\ pc[w] # "complete") => pc[w] = "handler"
          /\ (pc'[w] = "fail" /\ pc[w] # "fail") => pc[w] = "handler"]_vars

\* one worker has published job.completed for its claim and nothing else
\* terminal, the other job.failed for its own
C25_Witness ==
    /\ \A w \in Workers : pc[w] = "poll"
    /\ \E j, k \in 1..Len(jobs) :
          /\ j # k
          /\ <<JOB_COMPLETED, j>> \in emitted /\ <<JOB_FAILED, j>> \notin emitted
          /\ <<JOB_FAILED, k>> \in emitted /\ <<JOB_COMPLETED, k>> \notin emitted
          /\ <<JOB_PROGRESS, j>> \in emitted /\ <<JOB_PROGRESS, k>> \in emitted

\* C28: the worker publishes job.completed only after its own complete call
\* took effect: at the moment of publication the stored status is succeeded
C28_CompletedEventMeansSucceeded ==
    [][\A w \in Workers :
          (pc[w] = "emit_completed" /\ pc'[w] = "poll") =>
              jobs[cur[w]].status = SUCCEEDED]_vars

\* C21: when the document store raises during claim, complete or fail, the
\* call ends with that error (it does not return None) and the job keeps the
\* state it had before the call
C21_StoreErrorPropagates ==
    [][(/\ returned'.store_error
        /\ returned'.op \in {"acquire_job", "complete_job", "fail_job"}
        /\ now' = now)
          => (returned'.raised /\ jobs' = jobs)]_vars

\* stream q is subscribed for the key of recipient user_id
Listening(q, user_id) ==
    /\ streams[q].state = "open"
    /\ Key(streams[q].user_id) = Key(user_id)

\* C23: a client stream subscribed for the key of a job's requester before
\* the job is claimed (every stream of DeploySpec is), and whose channel is
\* not full, has in its channel each job.progress, job.completed and
\* job.failed event of that job as soon as the worker loop has published it.
C23_StreamReceivesWorkerEvents ==
    [][\A type \in {JOB_PROGRESS, JOB_COMPLETED, JOB_FAILED}, j \in 1..MaxStreamedJobs :
          (<<type, j>> \in emitted' /\ <<type, j>> \notin emitted) =>
              \A q \in QueueIds :
                  (Listening(q, JobUserId) /\ ~Full(q)) =>
                      \E i \in 1..Len(queues'[q]) : queues'[q][i] = WorkerEvent(type, j)]_vars

\* C29: eviction never takes the stored events of a recipient below the
\* retention limit: a step that removes events of a user_id from the log
\* leaves at least LogLimit of them, so that once every publish has finished
\* the log holds min(LogLimit, events published to that user_id) of them.
C29_EvictionKeepsLimit ==
    [][\A u \in EventUserIds :
          Count(log', u) < Count(log, u) => Count(log', u) >= LogLimit]_vars
\* publisher p's call of emit returns in this step
PublishCompletes(p) == pub[p].pc # "idle" /\ pub'[p].pc = "idle"

\* the events this step removes from the log
Removed == Range(log) \ Range(log')

\* when a publish completes, the log holds at most LogLimit events of the
\* published event's user_id
RetentionCapped ==
    \A p \in Publishers :
        PublishCompletes(p) => Count(log', pub[p].event.user_id) <= LogLimit

\* every event removed is older than every event of its user_id that stays
EvictsOldestFirst ==
    \A e \in Removed :
        \A o \in Matching(log', e.user_id) : e.timestamp < o.timestamp

\* a publish removes only events of the user_id it publishes to
EvictsOwnKeyOnly ==
    \A p \in Publishers :
        (pub[p].pc = "delete" /\ pub'[p].pc # "delete") =>
            \A e \in Removed : e.user_id = pub[p].event.user_id

\* C26: after every completed publish the log holds at most LogLimit (for
\* 1000) events of the published event's recipient, the events evicted are the
\* oldest by timestamp of that recipient, and the events of other recipients
\* are never removed.
C26_RetentionPerKey ==
    [][RetentionCapped /\ EvictsOldestFirst /\ EvictsOwnKeyOnly]_vars

\* the queue of stream q is in the registry
Registered(q) == \E k \in Keys : q \in Range(subs[k])

\* the for loop of publisher p's emit takes its next queue in this step
Selects(p) == pub[p].pc # "offer" /\ pub'[p].pc = "offer"

\* C27: once a stream has terminated its queue is not in the registry, and
\* the fan-out loop of a publish never takes the queue of a terminated
\* stream as the next queue to put the event into.
C27_TerminatedStreamUnsubscribed ==
    [][/\ \A q \in QueueIds : streams'[q].state = "closed" => ~Registered(q)'
       /\ \A p \in Publishers :
             Selects(p) => streams'[pub'[p].queue].state = "open"]_vars

\* a stream that terminated without having been sent anything, and a publish
\* made to its key that has returned after reaching the other stream of
\* that key
C27_Witness ==
    /\ streams[1].state = "closed"
    /\ queues[1] = <<>>
    /\ \A p \in Publishers : streams[1].yielded[p] = 0
    /\ streams[2].state = "open"
    /\ Key(streams[2].user_id) = Key(streams[1].user_id)
    /\ pub["p1"].pc = "idle"
    /\ pub["p1"].n = 1
    /\ pub["p2"].n = 0
    /\ \E i \in 1..Len(queues[2]) : queues[2][i].src = "p1"

\* stream q is running and publish has removed its queue from the registry
Evicted(q) == streams[q].state = "open" /\ ~Registered(q)

\* the queue of an evicted stream never comes back into the registry
NeverResubscribed == \A q \in QueueIds : Evicted(q) => ~Registered(q)'

\* the end of a publish, where the dead queues leave the registry, ends no stream
EvictionEndsNoStream ==
    \A p \in Publishers :
        PublishCompletes(p) => \A q \in QueueIds : streams'[q].state = streams[q].state

\* the fan-out loop never takes the queue of an evicted stream
EvictedNeverSelected ==
    \A p \in Publishers : Selects(p) => ~Evicted(pub'[p].queue)

\* an evicted stream can yield what its queue holds
YieldsBuffered ==
    \A q \in QueueIds : (Evicted(q) /\ queues[q] # <<>>) => ENABLED StreamYield(q)

\* nothing is put into the queue of an evicted stream
NothingAfterEviction ==
    \A q \in QueueIds : Evicted(q) => Len(queues'[q]) <= Len(queues[q])

\* what is put into the queue of an evicted stream is the event of a publish
\* that was already waiting in put on that queue
OnlyPendingAfterEviction ==
    \A q \in QueueIds :
        (Evicted(q) /\ Len(queues'[q]) > Len(queues[q])) =>
            \E p \in Publishers :
                /\ pub[p].pc = "offer"
                /\ pub[p].queue = q
                /\ queues'[q] = Append(queues[q], pub[p].event)

\* C30 as stated: after publish evicts a slow subscriber its stream is
\* neither terminated nor re-subscribed, it yields the events buffered in its
\* queue, and nothing more is ever put into its queue.
C30_EvictedStreamGetsNothing ==
    [][/\ NeverResubscribed
       /\ EvictionEndsNoStream
       /\ EvictedNeverSelected
       /\ YieldsBuffered
       /\ NothingAfterEviction]_vars

\* C30, amended: after publish evicts a slow subscriber its stream is neither
\* terminated nor re-subscribed, it yields the events buffered in its queue,
\* no fan-out loop takes its queue any more, and the only events still put
\* into its queue are those of publishes that were already waiting in put on
\* that queue when it was evicted.
C30_EvictedStreamGetsOnlyPending ==
    [][/\ NeverResubscribed
       /\ EvictionEndsNoStream
       /\ EvictedNeverSelected
       /\ YieldsBuffered
       /\ OnlyPendingAfterEviction]_vars

\* stream 1 was evicted after two events, has yielded both and holds nothing;
\* the second publisher's event, published since, reached stream 2 only
C30_Witness ==
    /\ Evicted(1)
    /\ queues[1] = <<>>
    /\ streams[1].yielded["p1"] = 2
    /\ streams[1].yielded["p2"] = 0
    /\ streams[2].state = "open"
    /\ Registered(2)
    /\ streams[2].yielded["p2"] = 1
    /\ \A p \in Publishers : pub[p].pc = "idle" /\ pub[p].n = SlowBudget(p)
====
